---- MODULE Spec2Model ----
(***************************************************************************)
(* PodSnapshotSandboxClient (agentic_sandbox/extensions/podsnapshot.py):   *)
(* the client session, the remote object store it drives, and the          *)
(* operations probe / checkpoint / list_snapshots / delete_snapshots /     *)
(* __exit__.                                                               *)
(*                                                                         *)
(* Remote calls are the atomicity points: checkpoint is split at its       *)
(* blocking watch, __exit__ at each delete.  The outcome of every remote   *)
(* call is an input: success (consistent with the store), an ApiException  *)
(* with a status, or any other exception the transport can raise.          *)
(*                                                                         *)
(* The names PODSNAPSHOTMANUALTRIGGER_PLURAL, SNAPSHOT_AGENT and           *)
(* SNAPSHOT_NAMESPACE_SELF_INSTALLED / _MANAGED used by podsnapshot.py are *)
(* taken as distinct resource kinds / namespaces / component names.        *)
(***************************************************************************)
EXTENDS Integers, Sequences, FiniteSets, TLC

\* ---------------------------------------------------------------- bounds
MaxTracked == 2
MaxEvents == 2
MaxSnaps == 3

\* ---------------------------------------------------------------- values
None == "None"

Sessions == {1, 2}
Namespaces == {"default", "sandbox-test"}
TrigNames == {"t1", "t2"}
SnapIds == {"s1", "s2", "s3", "s4"}
SnapIdSeq == << "s1", "s2", "s3", "s4" >>
PodNames == {"p1"}
Policies == {"daily", "weekly"}
\* creationTimestamp: ISO-8601 strings compare as their instants do; 0 is ""
Timestamps == {0, 1, 2}

\* ExecutionResult / return value / escaped exception of the last operation
Res(op, exit, msg, raised, flag, count) ==
    [op |-> op, exit |-> exit, msg |-> msg, raised |-> raised, flag |-> flag, count |-> count]
NoResult == Res("none", -1, "", FALSE, FALSE, 0)

\* A remote call as the gateway sees it
Call(op, kind, name, out) == [op |-> op, kind |-> kind, name |-> name, out |-> out]

\* Failure injected into one remote call; "none" lets the store decide
Faults == {"none", "ApiException", "Error"}

\* ------------------------------------------------------------ remote store
\* PodSnapshotManualTrigger objects, keyed by <<namespace, name>>
\* by: who created the object (a session, or 0 for another client of the store)
AbsentTrigger ==
    [present |-> FALSE, name |-> None, ns |-> None, targetPod |-> None, snap |-> None, by |-> 0]
TriggerKeys == Namespaces \X TrigNames

\* status.conditions of a PodSnapshot
Cond(type, status) == [type |-> type, status |-> status]
SnapCondLists == { <<>>, <<Cond("Ready", "True")>>, <<Cond("Ready", "False")>>,
                   <<Cond("Scheduled", "True"), Cond("Ready", "True")>> }

\* pods of a snapshot-system namespace, as list_namespaced_pod returns them;
\* comps is the set of component names that occur in the pod's name
Components == {"SNAPSHOT_CONTROLLER_NAME", "SNAPSHOT_AGENT"}
PodKinds == [comps : SUBSET Components, phase : {"Running"}]
            \cup {[comps |-> Components, phase |-> "Pending"]}
PodLists == { [err |-> "", pods |-> ps] : ps \in {{}} \cup {{p} : p \in PodKinds} }
            \cup { [err |-> e, pods |-> {}] : e \in {"ApiException", "Error"} }

VARIABLES
    triggers,           \* remote store: trigger objects
    snapshots,          \* remote store: PodSnapshot objects, in enumeration order
    phase,              \* per session: position in its lifecycle
    namespace,          \* self.namespace
    trigger_name,       \* constructor argument trigger_name (None when omitted)
    controller_ready,   \* self.controller_ready
    created_snapshots,  \* self.created_snapshots
    annotations,        \* self.annotations: None, or the value of podsnapshot.gke.io/ps-name
    pod_name,           \* self.pod_name
    sandbox,            \* the workload provisioned for the session
    cur,                \* trigger name the running checkpoint waits for
    evCount,            \* events consumed by the running / last watch
    lastEv,             \* the last event consumed
    idx,                \* position of __exit__ in created_snapshots
    result,             \* outcome of the last operation
    calls,              \* remote calls issued by the running / last operation
    accepted,           \* store-side log: names of the creates it accepted, per session
    listed,             \* return value of the last list_snapshots
    args                \* arguments of the last list_snapshots / delete_snapshots

vars == << triggers, snapshots, phase, namespace, trigger_name, controller_ready,
           created_snapshots, annotations, pod_name, sandbox, cur, evCount, lastEv,
           idx, result, calls, accepted, listed, args >>

storeVars == << triggers, snapshots >>
watchVars == << cur, evCount, lastEv >>

\* ------------------------------------------------------------ store reads
SnapIndex(ns, id) ==
    {i \in 1..Len(snapshots) : snapshots[i].ns = ns /\ snapshots[i].id = id}

\* the loop "for condition in conditions: type == Ready and status == True"
IsReady(conds) ==
    \E i \in 1..Len(conds) : conds[i].type = "Ready" /\ conds[i].status = "True"

\* ------------------------------------------------------------ probe
\* check_namespace: every required component has a Running pod whose name
\* contains it; an ApiException counts as False, any other error escapes
CheckNamespace(o, required) ==
    IF o.err = "ApiException" THEN [raised |-> FALSE, ok |-> FALSE]
    ELSE IF o.err = "Error" THEN [raised |-> TRUE, ok |-> FALSE]
    ELSE [raised |-> FALSE,
          ok |-> \A c \in required :
                    \E p \in o.pods : p.phase = "Running" /\ c \in p.comps]

ProbeOut(ret, ready, raised, lists) ==
    [ret |-> ret, ready |-> ready, raised |-> raised, lists |-> lists]

\* variant: no early return on a session that is ready already
SnapshotControllerReadyNoCache(ready, oSelf, oManaged) ==
    LET c1 == CheckNamespace(oSelf, {"SNAPSHOT_CONTROLLER_NAME", "SNAPSHOT_AGENT"})
        c2 == CheckNamespace(oManaged, {"SNAPSHOT_AGENT"})
    IN  IF c1.raised THEN ProbeOut(FALSE, ready, TRUE, 1)
        ELSE IF c1.ok THEN ProbeOut(TRUE, TRUE, FALSE, 1)
        ELSE IF c2.raised THEN ProbeOut(FALSE, ready, TRUE, 2)
        ELSE IF c2.ok THEN ProbeOut(TRUE, TRUE, FALSE, 2)
        ELSE ProbeOut(FALSE, FALSE, FALSE, 2)

\* snapshot_controller_ready on a session whose controller_ready is `ready`;
\* oSelf / oManaged are what list_namespaced_pod answers for the two
\* topologies; lists is the number of pod-list queries issued
SnapshotControllerReady(ready, oSelf, oManaged) ==
    IF ready THEN ProbeOut(TRUE, TRUE, FALSE, 0)
    ELSE LET c1 == CheckNamespace(oSelf, {"SNAPSHOT_CONTROLLER_NAME", "SNAPSHOT_AGENT"})
             c2 == CheckNamespace(oManaged, {"SNAPSHOT_AGENT"})
         IN  IF c1.raised THEN ProbeOut(FALSE, ready, TRUE, 1)
             ELSE IF c1.ok THEN ProbeOut(TRUE, TRUE, FALSE, 1)
             ELSE IF c2.raised THEN ProbeOut(FALSE, ready, TRUE, 2)
             ELSE IF c2.ok THEN ProbeOut(TRUE, TRUE, FALSE, 2)
             ELSE ProbeOut(FALSE, FALSE, FALSE, 2)

PodListOut(o) == IF o.err = "" THEN "ok" ELSE o.err

ListPodCalls(n, oSelf, oManaged) ==
    IF n = 0 THEN <<>>
    ELSE IF n = 1
    THEN << Call("list", "pods", "SNAPSHOT_NAMESPACE_SELF_INSTALLED", PodListOut(oSelf)) >>
    ELSE << Call("list", "pods", "SNAPSHOT_NAMESPACE_SELF_INSTALLED", PodListOut(oSelf)),
            Call("list", "pods", "SNAPSHOT_NAMESPACE_MANAGED", PodListOut(oManaged)) >>

\* ------------------------------------------------------------ resolve and bind
\* what get_namespaced_custom_object answers
GetOutcome(present, fault) ==
    IF fault = "Error" THEN "Error"
    ELSE IF fault = "ApiException" THEN "500"
    ELSE IF present THEN "ok"
    ELSE "404"

\* variant: the status is read from the trigger t1, whatever name was given
GetSnapshotUidOfFirst(ns, name, fault) ==
    LET out == GetOutcome(triggers[<<ns, "t1">>].present, fault) IN
    IF out # "ok" THEN [raised |-> TRUE, uid |-> None, out |-> out]
    ELSE [raised |-> FALSE, uid |-> triggers[<<ns, "t1">>].snap, out |-> out]

\* _get_snapshot_uid: the created-snapshot name in the trigger's status, None
\* when the status has none; an ApiException (404 included) is re-raised
GetSnapshotUid(ns, name, fault) ==
    LET out == GetOutcome(triggers[<<ns, name>>].present, fault) IN
    IF out # "ok" THEN [raised |-> TRUE, uid |-> None, out |-> out]
    ELSE [raised |-> FALSE, uid |-> triggers[<<ns, name>>].snap, out |-> out]

\* _check_snapshot_ready: raised when the lookup failed or the object has no
\* Ready=True condition. A uid of None is refused before any request is made.
CheckSnapshotReady(ns, uid, fault) ==
    LET out == GetOutcome(SnapIndex(ns, uid) # {}, fault) IN
    IF uid = None THEN [raised |-> TRUE, out |-> "refused"]
    ELSE IF out # "ok" THEN [raised |-> TRUE, out |-> out]
    ELSE [raised |-> \E i \in SnapIndex(ns, uid) : ~IsReady(snapshots[i].conds),
          out |-> out]

\* variant: a failure is logged and swallowed
ConfigureSnapshotRestoreSwallow(ns, name, fTrig, fSnap) ==
    LET r == GetSnapshotUid(ns, name, fTrig) IN
    IF r.raised \/ CheckSnapshotReady(ns, r.uid, fSnap).raised
    THEN [raised |-> FALSE, annotations |-> None]
    ELSE [raised |-> FALSE, annotations |-> r.uid]

\* _configure_snapshot_restore: every failure is logged and re-raised; the
\* annotation is set only after both steps passed
ConfigureSnapshotRestore(ns, name, fTrig, fSnap) ==
    LET r == GetSnapshotUid(ns, name, fTrig) IN
    IF r.raised THEN [raised |-> TRUE, annotations |-> None]
    ELSE IF CheckSnapshotReady(ns, r.uid, fSnap).raised
         THEN [raised |-> TRUE, annotations |-> None]
         ELSE [raised |-> FALSE, annotations |-> r.uid]

\* the lookups _configure_snapshot_restore makes: _check_snapshot_ready is
\* called with whatever _get_snapshot_uid returned, None included
ConfigureCalls(ns, name, fTrig, fSnap) ==
    LET r == GetSnapshotUid(ns, name, fTrig) IN
    << Call("get", "trigger", name, r.out) >>
    \o (IF r.raised THEN <<>>
        ELSE << Call("get", "snapshot", r.uid, CheckSnapshotReady(ns, r.uid, fSnap).out) >>)

\* ------------------------------------------------------------ checkpoint
\* variant: the object is created in the namespace default of the client
ManifestDefaultNamespace(s, name) ==
    [present |-> TRUE, name |-> name, ns |-> "default", targetPod |-> pod_name[s],
     snap |-> None, by |-> s]

\* the manifest checkpoint builds (lines 226-236)
Manifest(s, name) ==
    [present |-> TRUE, name |-> name, ns |-> namespace[s], targetPod |-> pod_name[s],
     snap |-> None, by |-> s]

\* what create_namespaced_custom_object answers: the store refuses a name
\* that exists (409, an ApiException)
CreateOutcome(ns, name, fault) ==
    IF fault = "Error" THEN "Error"
    ELSE IF fault = "ApiException" THEN "500"
    ELSE IF triggers[<<ns, name>>].present THEN "409"
    ELSE "ok"

\* variants of CheckpointCreate
CheckpointCreateWith(ready, pod, tracked, name, outcome, checkReady, onOk, onRefused) ==
    IF checkReady /\ ~ready
    THEN [tracked |-> tracked, go |-> "return", calls |-> <<>>,
          res |-> Res("checkpoint", 1, "not-ready", FALSE, FALSE, 0)]
    ELSE IF pod = None
    THEN [tracked |-> tracked, go |-> "return", calls |-> <<>>,
          res |-> Res("checkpoint", 1, "no-pod", FALSE, FALSE, 0)]
    ELSE IF outcome = "ok"
    THEN [tracked |-> onOk, go |-> "wait",
          calls |-> << Call("create", "trigger", name, outcome),
                       Call("watch", "trigger", name, "open") >>,
          res |-> Res("checkpoint", -1, "", FALSE, FALSE, 0)]
    ELSE IF outcome \in {"409", "500"}
    THEN [tracked |-> onRefused, go |-> "return",
          calls |-> << Call("create", "trigger", name, outcome) >>,
          res |-> Res("checkpoint", 1, "create-failed", FALSE, FALSE, 0)]
    ELSE [tracked |-> tracked, go |-> "return",
          calls |-> << Call("create", "trigger", name, outcome) >>,
          res |-> Res("checkpoint", -1, "", TRUE, FALSE, 0)]

\* variant: the name is appended before the create is known to have succeeded
CheckpointCreateTrackRefused(ready, pod, tracked, name, outcome) ==
    CheckpointCreateWith(ready, pod, tracked, name, outcome, TRUE,
                         Append(tracked, name), Append(tracked, name))

\* variant: the name is appended only after the wait
CheckpointCreateTrackLate(ready, pod, tracked, name, outcome) ==
    CheckpointCreateWith(ready, pod, tracked, name, outcome, TRUE, tracked, tracked)

\* variant: the readiness precondition is not checked
CheckpointCreateNoReadyCheck(ready, pod, tracked, name, outcome) ==
    CheckpointCreateWith(ready, pod, tracked, name, outcome, FALSE,
                         Append(tracked, name), tracked)

\* checkpoint up to the start of the wait (lines 213-247): the two
\* preconditions, the create, the append to created_snapshots.
\* go = "wait": the watch is open; go = "return": res is the call's outcome
CheckpointCreate(ready, pod, tracked, name, outcome) ==
    IF ~ready
    THEN [tracked |-> tracked, go |-> "return", calls |-> <<>>,
          res |-> Res("checkpoint", 1, "not-ready", FALSE, FALSE, 0)]
    ELSE IF pod = None
    THEN [tracked |-> tracked, go |-> "return", calls |-> <<>>,
          res |-> Res("checkpoint", 1, "no-pod", FALSE, FALSE, 0)]
    ELSE IF outcome = "ok"
    THEN [tracked |-> Append(tracked, name), go |-> "wait",
          calls |-> << Call("create", "trigger", name, outcome),
                       Call("watch", "trigger", name, "open") >>,
          res |-> Res("checkpoint", -1, "", FALSE, FALSE, 0)]
    ELSE IF outcome \in {"409", "500"}
    THEN [tracked |-> tracked, go |-> "return",
          calls |-> << Call("create", "trigger", name, outcome) >>,
          res |-> Res("checkpoint", 1, "create-failed", FALSE, FALSE, 0)]
    ELSE [tracked |-> tracked, go |-> "return",
          calls |-> << Call("create", "trigger", name, outcome) >>,
          res |-> Res("checkpoint", -1, "", TRUE, FALSE, 0)]

\* watch events: the type and the status.conditions of the object
TCond(type, status, reason) == [type |-> type, status |-> status, reason |-> reason]
TrigCondLists ==
    { <<>>,
      << TCond("Triggered", "True", "Complete") >>,
      << TCond("Triggered", "False", "Complete") >>,
      << TCond("Triggered", "True", "Failed") >>,
      << TCond("Ready", "True", "Complete") >>,
      << TCond("Triggered", "False", "Pending"), TCond("Triggered", "True", "Complete") >> }
EventTypes == {"ADDED", "MODIFIED", "DELETED"}
Events == [type : EventTypes, conds : TrigCondLists]
NoEvent == [type |-> None, conds |-> <<>>]

\* variant: the reason of the condition is not looked at
EventMatchesAnyReason(ev) ==
    /\ ev.type \in {"ADDED", "MODIFIED"}
    /\ \E i \in 1..Len(ev.conds) :
          /\ ev.conds[i].type = "Triggered"
          /\ ev.conds[i].status = "True"

\* the body of the for loop of _wait_for_snapshot_processed (lines 132-145):
\* TRUE when the event makes it stop the watch and return
EventMatches(ev) ==
    /\ ev.type \in {"ADDED", "MODIFIED"}
    /\ \E i \in 1..Len(ev.conds) :
          /\ ev.conds[i].type = "Triggered"
          /\ ev.conds[i].status = "True"
          /\ ev.conds[i].reason = "Complete"

\* variant: the TimeoutError of the wait is not caught
CheckpointReturnTimeoutEscapes(w) ==
    IF w = "matched" THEN Res("checkpoint", 0, "", FALSE, FALSE, 0)
    ELSE IF w = "ApiException" THEN Res("checkpoint", 1, "create-failed", FALSE, FALSE, 0)
    ELSE Res("checkpoint", -1, "", TRUE, FALSE, 0)

\* how checkpoint (lines 247-264) turns the end of the wait into its outcome.
\* w: "matched" (the wait returned), "ended" (the stream ran out, the wait
\* raised TimeoutError), or the exception the stream raised, which the wait
\* logs and re-raises (lines 146-148)
CheckpointReturn(w) ==
    IF w = "matched" THEN Res("checkpoint", 0, "", FALSE, FALSE, 0)
    ELSE IF w \in {"ended", "TimeoutError"}
    THEN Res("checkpoint", 1, "timed-out", FALSE, FALSE, 0)
    ELSE IF w = "ApiException" THEN Res("checkpoint", 1, "create-failed", FALSE, FALSE, 0)
    ELSE Res("checkpoint", -1, "", TRUE, FALSE, 0)

StreamErrors == {"ApiException", "TimeoutError", "Error"}

\* ------------------------------------------------------------ __exit__
\* what delete_namespaced_custom_object answers
DeleteOutcome(present, fault) ==
    IF fault = "Error" THEN "Error"
    ELSE IF fault = "ApiException" THEN "500"
    ELSE IF present THEN "ok"
    ELSE "404"

\* variant: the tracked names are taken newest first
ExitTargetReversed(tracked, i) == tracked[Len(tracked) + 1 - i]

\* the trigger the loop of __exit__ (line 413) deletes at position i
ExitTarget(tracked, i) == tracked[i]

\* variant: only a 404 is swallowed
ExitStepAbortOnError(i, outcome) ==
    IF outcome \in {"Error", "500"} THEN [idx |-> i, raised |-> TRUE]
    ELSE [idx |-> i + 1, raised |-> FALSE]

\* one iteration of the loop of __exit__ (lines 413-425) at position i:
\* an ApiException is swallowed (logged unless 404), anything else escapes
ExitStep(i, outcome) ==
    IF outcome = "Error" THEN [idx |-> i, raised |-> TRUE]
    ELSE [idx |-> i + 1, raised |-> FALSE]

\* ------------------------------------------------------------ list_snapshots
\* the summary list_snapshots builds for one object (lines 307-315)
Summary(o) ==
    [snapshot_id |-> o.id,
     trigger_name |-> IF o.trig = None THEN "Unknown" ELSE o.trig,
     source_pod |-> IF o.pod = None THEN "Unknown" ELSE o.pod,
     uid |-> o.uid,
     creationTimestamp |-> o.ts,
     status |-> IF IsReady(o.conds) THEN "Ready" ELSE "NotReady",
     policy_name |-> o.policy]

\* the filter of the loop (lines 292-304); a falsy policy_name filters nothing
Keeps(o, ns, policy_name, ready_only) ==
    /\ o.ns = ns
    /\ (policy_name # None => o.policy = policy_name)
    /\ (ready_only => IsReady(o.conds))

RECURSIVE ValidSnapshots(_, _, _, _)
ValidSnapshots(items, ns, policy_name, ready_only) ==
    IF items = <<>> THEN <<>>
    ELSE LET rest == ValidSnapshots(Tail(items), ns, policy_name, ready_only) IN
         IF Keeps(Head(items), ns, policy_name, ready_only)
         THEN << Summary(Head(items)) >> \o rest
         ELSE rest

\* variant: an unstable sort, x goes before the elements of equal key
InsertDescTiesFirst(sorted, x) ==
    LET n == Cardinality({i \in 1..Len(sorted) :
                             sorted[i].creationTimestamp > x.creationTimestamp})
    IN  SubSeq(sorted, 1, n) \o << x >> \o SubSeq(sorted, n + 1, Len(sorted))

\* list.sort(key=creationTimestamp, reverse=True): stable, so x goes behind
\* every element whose key is not smaller than its own
InsertDesc(sorted, x) ==
    LET n == Cardinality({i \in 1..Len(sorted) :
                             sorted[i].creationTimestamp >= x.creationTimestamp})
    IN  SubSeq(sorted, 1, n) \o << x >> \o SubSeq(sorted, n + 1, Len(sorted))

RECURSIVE SortDesc(_)
SortDesc(seq) ==
    IF seq = <<>> THEN <<>>
    ELSE InsertDesc(SortDesc(SubSeq(seq, 1, Len(seq) - 1)), seq[Len(seq)])

\* variant: an empty result is returned as an empty list
ListSnapshotsEmptyList(items, ns, policy_name, ready_only, fault) ==
    IF fault = "Error" THEN [raised |-> TRUE, none |-> TRUE, items |-> <<>>]
    ELSE IF fault = "ApiException" THEN [raised |-> FALSE, none |-> TRUE, items |-> <<>>]
    ELSE [raised |-> FALSE, none |-> FALSE,
          items |-> SortDesc(ValidSnapshots(items, ns, policy_name, ready_only))]

\* list_snapshots (lines 266-327): none = it returned None
ListSnapshots(items, ns, policy_name, ready_only, fault) ==
    IF fault = "Error" THEN [raised |-> TRUE, none |-> TRUE, items |-> <<>>]
    ELSE IF fault = "ApiException" THEN [raised |-> FALSE, none |-> TRUE, items |-> <<>>]
    ELSE LET valid == ValidSnapshots(items, ns, policy_name, ready_only) IN
         IF valid = <<>> THEN [raised |-> FALSE, none |-> TRUE, items |-> <<>>]
         ELSE [raised |-> FALSE, none |-> FALSE, items |-> SortDesc(valid)]

\* ------------------------------------------------------------ delete_snapshots
\* **filters: a map from some of these keys to values; "owner" is a key no
\* summary carries
FilterKeys == {"snapshot_id", "policy_name", "trigger_name", "status", "owner"}
FilterValues(k) ==
    IF k = "snapshot_id" THEN {"s1", "s4"}
    ELSE IF k = "policy_name" THEN Policies \cup {None}
    ELSE IF k = "trigger_name" THEN {"t1"}
    ELSE IF k = "status" THEN {"NotReady"}
    ELSE {None}
Omitted == "omitted"
FilterSets ==
    { [k \in {x \in FilterKeys : r[x] # Omitted} |-> r[k]] :
      r \in [snapshot_id : FilterValues("snapshot_id") \cup {Omitted},
             policy_name : FilterValues("policy_name") \cup {Omitted},
             trigger_name : FilterValues("trigger_name") \cup {Omitted},
             status : FilterValues("status") \cup {Omitted},
             owner : FilterValues("owner") \cup {Omitted}] }

\* per-object failure injected into a delete; "gone": another client removed
\* the object after it was listed
DeleteFaults == {"none", "gone", "ApiException", "Error"}

\* snap.get(key)
SummaryGet(snap, key) == IF key \in DOMAIN snap THEN snap[key] ELSE None

\* the inner loop (lines 381-388): every key but policy_name must be equal
Matches(snap, filters) ==
    \A key \in (DOMAIN filters) \ {"policy_name"} : SummaryGet(snap, key) = filters[key]

RemoveSnap(items, ns, id) ==
    SelectSeq(items, LAMBDA o : ~(o.ns = ns /\ o.id = id))

SnapDeleteOutcome(items, ns, id, fault) ==
    DeleteOutcome(fault # "gone" /\ \E i \in 1..Len(items) : items[i].ns = ns /\ items[i].id = id,
                  IF fault = "gone" THEN "none" ELSE fault)

DelOut(ret, raised, cs, items) ==
    [ret |-> ret, raised |-> raised, calls |-> cs, items |-> items]

\* variant: an object that is gone already counts as deleted
DirectDeleteCountsGone(items, ns, uid, fault) ==
    LET out == SnapDeleteOutcome(items, ns, uid, fault)
        cs == << Call("delete", "snapshot", uid, out) >>
    IN  IF out \in {"ok", "404"} THEN DelOut(1, FALSE, cs, RemoveSnap(items, ns, uid))
        ELSE IF out = "Error" THEN DelOut(0, TRUE, cs, items)
        ELSE DelOut(0, FALSE, cs, items)

\* the direct mode (lines 345-360): one delete of the named object; 1 when it
\* went through, 0 on an ApiException of any status, anything else escapes
DirectDelete(items, ns, uid, fault) ==
    LET out == SnapDeleteOutcome(items, ns, uid, fault)
        cs == << Call("delete", "snapshot", uid, out) >>
    IN  IF out = "ok" THEN DelOut(1, FALSE, cs, RemoveSnap(items, ns, uid))
        ELSE IF out = "Error" THEN DelOut(0, TRUE, cs, items)
        ELSE DelOut(0, FALSE, cs, RemoveSnap(items, ns, IF out = "404" THEN uid ELSE None))

\* variant: the first failed delete ends the loop
RECURSIVE BulkDeleteAbortOnFailure(_, _, _, _, _, _, _)
BulkDeleteAbortOnFailure(cands, items, ns, filters, faults, count, cs) ==
    IF cands = <<>> THEN DelOut(count, FALSE, cs, items)
    ELSE LET snap == Head(cands)
             id == snap.snapshot_id
             out == SnapDeleteOutcome(items, ns, id, faults[id])
             cs2 == Append(cs, Call("delete", "snapshot", id, out))
         IN  IF ~Matches(snap, filters)
             THEN BulkDeleteAbortOnFailure(Tail(cands), items, ns, filters, faults, count, cs)
             ELSE IF out = "Error" THEN DelOut(count, TRUE, cs2, items)
             ELSE IF out = "ok"
             THEN BulkDeleteAbortOnFailure(Tail(cands), RemoveSnap(items, ns, id), ns,
                                           filters, faults, count + 1, cs2)
             ELSE DelOut(count, FALSE, cs2, items)

\* the bulk loop (lines 379-407) over the candidates still to visit
RECURSIVE BulkDelete(_, _, _, _, _, _, _)
BulkDelete(cands, items, ns, filters, faults, count, cs) ==
    IF cands = <<>> THEN DelOut(count, FALSE, cs, items)
    ELSE LET snap == Head(cands)
             id == snap.snapshot_id
             out == SnapDeleteOutcome(items, ns, id, faults[id])
             cs2 == Append(cs, Call("delete", "snapshot", id, out))
         IN  IF ~Matches(snap, filters)
             THEN BulkDelete(Tail(cands), items, ns, filters, faults, count, cs)
             ELSE IF out = "Error" THEN DelOut(count, TRUE, cs2, items)
             ELSE IF out = "ok"
             THEN BulkDelete(Tail(cands), RemoveSnap(items, ns, id), ns, filters, faults,
                             count + 1, cs2)
             ELSE BulkDelete(Tail(cands), RemoveSnap(items, ns, IF out = "404" THEN id ELSE None),
                             ns, filters, faults, count, cs2)

\* variant: bulk mode does not insist on policy_name
DeleteSnapshotsNoPolicyCheck(items, ns, filters, listFault, faults) ==
    IF DOMAIN filters = {} THEN DelOut(0, FALSE, <<>>, items)
    ELSE IF "snapshot_id" \in DOMAIN filters
    THEN DirectDelete(items, ns, filters["snapshot_id"], faults[filters["snapshot_id"]])
    ELSE LET l == ListSnapshots(items, ns,
                                IF "policy_name" \in DOMAIN filters
                                THEN filters["policy_name"] ELSE None,
                                FALSE, listFault)
             cs == << Call("list", "snapshot", None,
                           IF listFault = "none" THEN "ok" ELSE listFault) >>
         IN  IF l.raised THEN DelOut(0, TRUE, cs, items)
             ELSE IF l.none THEN DelOut(0, FALSE, cs, items)
             ELSE BulkDelete(l.items, items, ns, filters, faults, 0, cs)

\* delete_snapshots (lines 329-407)
DeleteSnapshots(items, ns, filters, listFault, faults) ==
    IF DOMAIN filters = {} THEN DelOut(0, FALSE, <<>>, items)
    ELSE IF "snapshot_id" \in DOMAIN filters
    THEN DirectDelete(items, ns, filters["snapshot_id"], faults[filters["snapshot_id"]])
    ELSE IF "policy_name" \notin DOMAIN filters THEN DelOut(0, FALSE, <<>>, items)
    ELSE LET l == ListSnapshots(items, ns, filters["policy_name"], FALSE, listFault)
             cs == << Call("list", "snapshot", None,
                           IF listFault = "none" THEN "ok" ELSE listFault) >>
         IN  IF l.raised THEN DelOut(0, TRUE, cs, items)
             ELSE IF l.none THEN DelOut(0, FALSE, cs, items)
             ELSE BulkDelete(l.items, items, ns, filters, faults, 0, cs)

\* ------------------------------------------------------------ construction
\* __init__ (lines 46-58) up to the call of the base constructor: the probe,
\* then, with a trigger_name, the resolve-and-bind step. raised: an exception
\* left the constructor before the base constructor ran
ClientInit(ns, tn, oSelf, oManaged, fTrig, fSnap) ==
    LET pr == SnapshotControllerReady(FALSE, oSelf, oManaged)
        cf == IF tn # None /\ ~pr.raised
              THEN ConfigureSnapshotRestore(ns, tn, fTrig, fSnap)
              ELSE [raised |-> FALSE, annotations |-> None]
    IN  [ready |-> pr.ready,
         probed |-> pr.ret,
         annotations |-> cf.annotations,
         raised |-> pr.raised \/ cf.raised,
         calls |-> ListPodCalls(pr.lists, oSelf, oManaged)
                   \o (IF tn # None /\ ~pr.raised THEN ConfigureCalls(ns, tn, fTrig, fSnap)
                       ELSE <<>>)]

NoArgs == [filters |-> <<>>, policy_name |-> None, ready_only |-> FALSE]
NoSandbox == [created |-> FALSE, annotation |-> None]

Upd(f, s, v) == [f EXCEPT ![s] = v]

\* the state right after the session objects come to exist, over a store
\* holding trigs and snaps; session 1 is the session under study
InitWith(trigs, snaps, tn) ==
    /\ triggers = trigs
    /\ snapshots = snaps
    /\ phase = [s \in Sessions |-> IF s = 1 THEN "new" ELSE "absent"]
    /\ namespace = [s \in Sessions |-> "sandbox-test"]
    /\ trigger_name = [s \in Sessions |-> IF s = 1 THEN tn ELSE None]
    /\ controller_ready = [s \in Sessions |-> FALSE]
    /\ created_snapshots = [s \in Sessions |-> <<>>]
    /\ annotations = [s \in Sessions |-> None]
    /\ pod_name = [s \in Sessions |-> None]
    /\ sandbox = [s \in Sessions |-> NoSandbox]
    /\ cur = [s \in Sessions |-> None]
    /\ evCount = [s \in Sessions |-> 0]
    /\ lastEv = [s \in Sessions |-> NoEvent]
    /\ idx = [s \in Sessions |-> 0]
    /\ result = [s \in Sessions |-> NoResult]
    /\ calls = [s \in Sessions |-> <<>>]
    /\ accepted = [s \in Sessions |-> <<>>]
    /\ listed = [s \in Sessions |-> [none |-> TRUE, items |-> <<>>]]
    /\ args = [s \in Sessions |-> NoArgs]

EmptyTriggers == [k \in TriggerKeys |-> AbsentTrigger]

\* a session without a snapshot reference over an empty store
Init == InitWith(EmptyTriggers, <<>>, None)

Construct(s, oSelf, oManaged, fTrig, fSnap) ==
    /\ phase[s] = "new"
    /\ LET c == ClientInit(namespace[s], trigger_name[s], oSelf, oManaged, fTrig, fSnap) IN
        /\ controller_ready' = Upd(controller_ready, s, c.ready)
        /\ annotations' = Upd(annotations, s, c.annotations)
        /\ phase' = Upd(phase, s, IF c.raised THEN "failed" ELSE "built")
        /\ result' = Upd(result, s, Res("init", -1, "", c.raised, c.probed, 0))
        /\ calls' = Upd(calls, s, c.calls)
    /\ UNCHANGED << storeVars, namespace, trigger_name, created_snapshots, pod_name,
                    sandbox, watchVars, idx, accepted, listed, args >>

\* entering the scope: the base client provisions the workload with the
\* annotations the constructor passed on, and resolves its pod
Enter(s, pod) ==
    /\ phase[s] = "built"
    /\ phase' = Upd(phase, s, "open")
    /\ sandbox' = Upd(sandbox, s, [created |-> TRUE, annotation |-> annotations[s]])
    /\ pod_name' = Upd(pod_name, s, pod)
    /\ result' = Upd(result, s, Res("enter", -1, "", FALSE, FALSE, 0))
    /\ calls' = Upd(calls, s, << Call("create", "claim", None, "ok") >>)
    /\ UNCHANGED << storeVars, namespace, trigger_name, controller_ready,
                    created_snapshots, annotations, watchVars, idx, accepted, listed, args >>

Callable(s) == phase[s] \in {"built", "open"}

\* an explicit snapshot_controller_ready() call
Probe(s, oSelf, oManaged) ==
    /\ Callable(s)
    /\ LET pr == SnapshotControllerReady(controller_ready[s], oSelf, oManaged) IN
        /\ controller_ready' = Upd(controller_ready, s, pr.ready)
        /\ result' = Upd(result, s, Res("probe", -1, "", pr.raised, pr.ret, 0))
        /\ calls' = Upd(calls, s, ListPodCalls(pr.lists, oSelf, oManaged))
    /\ UNCHANGED << storeVars, phase, namespace, trigger_name, created_snapshots,
                    annotations, pod_name, sandbox, watchVars, idx, accepted, listed, args >>

\* ------------------------------------------------------------ checkpoint
\* variant: checkpoint runs the probe again, against a namespace whose
\* controller has become ready
CheckpointReprobes(s, name, fault) ==
    /\ Callable(s)
    /\ Len(created_snapshots[s]) < MaxTracked
    /\ LET out == CreateOutcome(namespace[s], name, fault)
           r == CheckpointCreate(TRUE, pod_name[s], created_snapshots[s], name, out)
           stored == out = "ok" /\ \E i \in 1..Len(r.calls) : r.calls[i].op = "create"
       IN
        /\ controller_ready' = Upd(controller_ready, s, TRUE)
        /\ triggers' = IF stored
                       THEN [triggers EXCEPT ![<<namespace[s], name>>] = Manifest(s, name)]
                       ELSE triggers
        /\ accepted' = IF stored THEN Upd(accepted, s, Append(accepted[s], name))
                       ELSE accepted
        /\ created_snapshots' = Upd(created_snapshots, s, r.tracked)
        /\ phase' = IF r.go = "wait" THEN Upd(phase, s, "waiting") ELSE phase
        /\ cur' = Upd(cur, s, IF r.go = "wait" THEN name ELSE None)
        /\ evCount' = Upd(evCount, s, 0)
        /\ lastEv' = Upd(lastEv, s, NoEvent)
        /\ result' = Upd(result, s, r.res)
        /\ calls' = Upd(calls, s, r.calls)
    /\ UNCHANGED << snapshots, namespace, trigger_name, annotations,
                    pod_name, sandbox, idx, listed, args >>

Checkpoint(s, name, fault) ==
    /\ Callable(s)
    /\ Len(created_snapshots[s]) < MaxTracked
    /\ LET out == CreateOutcome(namespace[s], name, fault)
           r == CheckpointCreate(controller_ready[s], pod_name[s], created_snapshots[s],
                                 name, out)
           stored == out = "ok" /\ \E i \in 1..Len(r.calls) : r.calls[i].op = "create"
       IN
        /\ triggers' = IF stored
                       THEN [triggers EXCEPT ![<<namespace[s], name>>] = Manifest(s, name)]
                       ELSE triggers
        /\ accepted' = IF stored THEN Upd(accepted, s, Append(accepted[s], name))
                       ELSE accepted
        /\ created_snapshots' = Upd(created_snapshots, s, r.tracked)
        /\ phase' = IF r.go = "wait" THEN Upd(phase, s, "waiting") ELSE phase
        /\ cur' = Upd(cur, s, IF r.go = "wait" THEN name ELSE None)
        /\ evCount' = Upd(evCount, s, 0)
        /\ lastEv' = Upd(lastEv, s, NoEvent)
        /\ result' = Upd(result, s, r.res)
        /\ calls' = Upd(calls, s, r.calls)
    /\ UNCHANGED << snapshots, namespace, trigger_name, controller_ready, annotations,
                    pod_name, sandbox, idx, listed, args >>

\* variant: a stream that ran out is opened again
EndWaitRestart(s, w) ==
    IF w = "ended"
    THEN UNCHANGED << phase, result, calls >>
    ELSE /\ phase' = Upd(phase, s, "open")
         /\ result' = Upd(result, s, CheckpointReturn(w))
         /\ calls' = Upd(calls, s, Append(calls[s], Call("watch", "trigger", cur[s], w)))

\* the wait of the running checkpoint ends with w
EndWait(s, w) ==
    /\ phase' = Upd(phase, s, "open")
    /\ result' = Upd(result, s, CheckpointReturn(w))
    /\ calls' = Upd(calls, s, Append(calls[s], Call("watch", "trigger", cur[s], w)))

WatchEvent(s, ev) ==
    /\ phase[s] = "waiting"
    /\ evCount[s] < MaxEvents
    /\ evCount' = Upd(evCount, s, evCount[s] + 1)
    /\ lastEv' = Upd(lastEv, s, ev)
    /\ IF EventMatches(ev) THEN EndWait(s, "matched")
       ELSE UNCHANGED << phase, result, calls >>
    /\ UNCHANGED << storeVars, namespace, trigger_name, controller_ready,
                    created_snapshots, annotations, pod_name, sandbox, cur, idx,
                    accepted, listed, args >>

WatchEnd(s) ==
    /\ phase[s] = "waiting"
    /\ EndWait(s, "ended")
    /\ UNCHANGED << storeVars, namespace, trigger_name, controller_ready,
                    created_snapshots, annotations, pod_name, sandbox, watchVars, idx,
                    accepted, listed, args >>

WatchFail(s, e) ==
    /\ phase[s] = "waiting"
    /\ EndWait(s, e)
    /\ UNCHANGED << storeVars, namespace, trigger_name, controller_ready,
                    created_snapshots, annotations, pod_name, sandbox, watchVars, idx,
                    accepted, listed, args >>

\* ------------------------------------------------------------ __exit__
\* the scope closes (normally or through an exception): __exit__ starts
Exit(s) ==
    /\ phase[s] = "open"
    /\ phase' = Upd(phase, s, "closing")
    /\ idx' = Upd(idx, s, 1)
    /\ result' = Upd(result, s, Res("exit", -1, "", FALSE, FALSE, 0))
    /\ calls' = Upd(calls, s, <<>>)
    /\ UNCHANGED << storeVars, namespace, trigger_name, controller_ready,
                    created_snapshots, annotations, pod_name, sandbox, watchVars,
                    accepted, listed, args >>

CleanupStep(s, fault) ==
    /\ phase[s] = "closing"
    /\ idx[s] <= Len(created_snapshots[s])
    /\ LET name == ExitTarget(created_snapshots[s], idx[s])
           k == <<namespace[s], name>>
           out == DeleteOutcome(triggers[k].present, fault)
           st == ExitStep(idx[s], out)
       IN
        /\ triggers' = IF out = "ok" THEN [triggers EXCEPT ![k] = AbsentTrigger]
                       ELSE triggers
        /\ calls' = Upd(calls, s, Append(calls[s], Call("delete", "trigger", name, out)))
        /\ idx' = Upd(idx, s, st.idx)
        /\ phase' = IF st.raised THEN Upd(phase, s, "closed") ELSE phase
        /\ result' = IF st.raised
                     THEN Upd(result, s, Res("exit", -1, "", TRUE, FALSE, 0))
                     ELSE result
    /\ UNCHANGED << snapshots, namespace, trigger_name, controller_ready,
                    created_snapshots, annotations, pod_name, sandbox, watchVars,
                    accepted, listed, args >>

\* the loop is through: the base __exit__ releases the workload
CleanupDone(s) ==
    /\ phase[s] = "closing"
    /\ idx[s] > Len(created_snapshots[s])
    /\ phase' = Upd(phase, s, "closed")
    /\ sandbox' = Upd(sandbox, s, NoSandbox)
    /\ UNCHANGED << storeVars, namespace, trigger_name, controller_ready,
                    created_snapshots, annotations, pod_name, watchVars, idx, result,
                    calls, accepted, listed, args >>

\* ------------------------------------------------------------ queries
ListCall(s, policy_name, ready_only, fault) ==
    /\ Callable(s)
    /\ LET l == ListSnapshots(snapshots, namespace[s], policy_name, ready_only, fault) IN
        /\ listed' = Upd(listed, s, [none |-> l.none, items |-> l.items])
        /\ args' = Upd(args, s, [filters |-> <<>>, policy_name |-> policy_name,
                                 ready_only |-> ready_only])
        /\ result' = Upd(result, s, Res("list_snapshots", -1, "", l.raised, FALSE, 0))
        /\ calls' = Upd(calls, s, << Call("list", "snapshot", None,
                                          IF fault = "none" THEN "ok" ELSE fault) >>)
    /\ UNCHANGED << storeVars, phase, namespace, trigger_name, controller_ready,
                    created_snapshots, annotations, pod_name, sandbox, watchVars, idx,
                    accepted >>

DeleteCall(s, filters, listFault, faults) ==
    /\ Callable(s)
    /\ LET d == DeleteSnapshots(snapshots, namespace[s], filters, listFault, faults) IN
        /\ snapshots' = d.items
        /\ args' = Upd(args, s, [filters |-> filters, policy_name |-> None,
                                 ready_only |-> FALSE])
        /\ result' = Upd(result, s, Res("delete_snapshots", -1, "", d.raised, FALSE, d.ret))
        /\ calls' = Upd(calls, s, d.calls)
    /\ UNCHANGED << triggers, phase, namespace, trigger_name, controller_ready,
                    created_snapshots, annotations, pod_name, sandbox, watchVars, idx,
                    accepted, listed >>

\* ------------------------------------------------------------ the remote side
\* namespaces a session lives in: objects elsewhere are never read
LiveNamespaces == {namespace[s] : s \in {x \in Sessions : phase[x] # "absent"}}

\* another client of the store creates / deletes a trigger
EnvCreateTrigger(k, pod) ==
    /\ k[1] \in LiveNamespaces
    /\ ~triggers[k].present
    /\ triggers' = [triggers EXCEPT ![k] =
            [present |-> TRUE, name |-> k[2], ns |-> k[1], targetPod |-> pod,
             snap |-> None, by |-> 0]]
    /\ UNCHANGED << snapshots, phase, namespace, trigger_name, controller_ready,
                    created_snapshots, annotations, pod_name, sandbox, watchVars, idx,
                    result, calls, accepted, listed, args >>

EnvDeleteTrigger(k) ==
    /\ triggers[k].present
    /\ triggers' = [triggers EXCEPT ![k] = AbsentTrigger]
    /\ UNCHANGED << snapshots, phase, namespace, trigger_name, controller_ready,
                    created_snapshots, annotations, pod_name, sandbox, watchVars, idx,
                    result, calls, accepted, listed, args >>

\* the name the controller gives the snapshot it takes for a trigger
SnapFor(name) == IF name = "t1" THEN "s1" ELSE "s2"

\* the snapshot controller processes a trigger: it records the snapshot's name
\* in the trigger's status and creates the PodSnapshot object
ControllerProcess(k, conds) ==
    /\ k[1] \in LiveNamespaces
    /\ triggers[k].present
    /\ triggers[k].snap = None
    /\ SnapIndex(k[1], SnapFor(k[2])) = {}
    /\ triggers' = [triggers EXCEPT ![k].snap = SnapFor(k[2])]
    /\ snapshots' = Append(snapshots,
            [id |-> SnapFor(k[2]), ns |-> k[1], conds |-> conds, policy |-> None,
             ts |-> 1, trig |-> k[2], pod |-> triggers[k].targetPod,
             uid |-> SnapFor(k[2])])
    /\ UNCHANGED << phase, namespace, trigger_name, controller_ready,
                    created_snapshots, annotations, pod_name, sandbox, watchVars, idx,
                    result, calls, accepted, listed, args >>

\* another client of the store deletes a PodSnapshot
EnvDeleteSnapshot(i) ==
    /\ i \in 1..Len(snapshots)
    /\ snapshots' = SelectSeq(snapshots, LAMBDA o : o # snapshots[i])
    /\ UNCHANGED << triggers, phase, namespace, trigger_name, controller_ready,
                    created_snapshots, annotations, pod_name, sandbox, watchVars, idx,
                    result, calls, accepted, listed, args >>

\* ------------------------------------------------------------ specification
\* at most one delete of a call is made to fail
NoFaults == [id \in SnapIds |-> "none"]
DeleteFaultMaps ==
    {NoFaults} \cup { [NoFaults EXCEPT ![id] = f] : id \in SnapIds, f \in DeleteFaults \ {"none"} }

\* in Next the guard on the session's position comes before the inputs
Next ==
    \/ \E s \in Sessions : phase[s] = "new" /\
          \E oSelf \in PodLists, oManaged \in PodLists, fTrig \in Faults, fSnap \in Faults :
            Construct(s, oSelf, oManaged, fTrig, fSnap)
    \/ \E s \in Sessions, pod \in PodNames : Enter(s, pod)
    \/ \E s \in Sessions : Callable(s) /\
          \E oSelf \in PodLists, oManaged \in PodLists : Probe(s, oSelf, oManaged)
    \/ \E s \in Sessions, name \in TrigNames, fault \in Faults :
            Checkpoint(s, name, fault)
    \/ \E s \in Sessions : phase[s] = "waiting" /\ \E ev \in Events : WatchEvent(s, ev)
    \/ \E s \in Sessions : WatchEnd(s)
    \/ \E s \in Sessions, e \in StreamErrors : WatchFail(s, e)
    \/ \E s \in Sessions : Exit(s)
    \/ \E s \in Sessions, fault \in Faults : CleanupStep(s, fault)
    \/ \E s \in Sessions : CleanupDone(s)
    \/ \E k \in TriggerKeys, pod \in PodNames : EnvCreateTrigger(k, pod)
    \/ \E k \in TriggerKeys : EnvDeleteTrigger(k)

Spec == Init /\ [][Next]_vars

\* ---- construction with a snapshot reference, over a store that fills up
InitBind == \E tn \in TrigNames : InitWith(EmptyTriggers, <<>>, tn)

NextBind ==
    \/ \E s \in Sessions : phase[s] = "new" /\
          \E oSelf \in PodLists, oManaged \in PodLists, fTrig \in Faults, fSnap \in Faults :
            Construct(s, oSelf, oManaged, fTrig, fSnap)
    \/ \E s \in Sessions, pod \in PodNames : Enter(s, pod)
    \/ \E k \in TriggerKeys, pod \in PodNames : EnvCreateTrigger(k, pod)
    \/ \E k \in TriggerKeys : EnvDeleteTrigger(k)
    \/ \E k \in TriggerKeys, conds \in SnapCondLists : ControllerProcess(k, conds)
    \/ \E i \in 1..MaxSnaps : EnvDeleteSnapshot(i)

SpecBind == InitBind /\ [][NextBind]_vars

\* ---- the queries, one call from every store
\* PodSnapshot objects the stores are made of
Profile(ns, policy, conds, ts, trig) ==
    [ns |-> ns, policy |-> policy, conds |-> conds, ts |-> ts, trig |-> trig]
SnapProfiles ==
    { Profile("sandbox-test", "daily", << Cond("Ready", "True") >>, 1, "t1"),
      Profile("sandbox-test", "daily", << Cond("Ready", "True") >>, 2, "t1"),
      Profile("sandbox-test", "daily", << Cond("Ready", "False") >>, 2, "t2"),
      Profile("sandbox-test", "weekly",
              << Cond("Scheduled", "True"), Cond("Ready", "True") >>, 1, None),
      Profile("sandbox-test", None, <<>>, 0, "t1"),
      Profile("default", "daily", << Cond("Ready", "True") >>, 2, "t1") }

StoreOf(ps) ==
    [i \in 1..Len(ps) |->
        [id |-> SnapIdSeq[i], ns |-> ps[i].ns, conds |-> ps[i].conds,
         policy |-> ps[i].policy, ts |-> ps[i].ts, trig |-> ps[i].trig,
         pod |-> "p1", uid |-> SnapIdSeq[i]]]

QueryStores == UNION { {StoreOf(ps) : ps \in [1..n -> SnapProfiles]} : n \in 0..MaxSnaps }

\* session 1 inside its scope (constructed and entered), over a store snaps
InitQuery ==
    /\ snapshots \in QueryStores
    /\ triggers = EmptyTriggers
    /\ phase = [s \in Sessions |-> IF s = 1 THEN "open" ELSE "absent"]
    /\ namespace = [s \in Sessions |-> "sandbox-test"]
    /\ trigger_name = [s \in Sessions |-> None]
    /\ controller_ready = [s \in Sessions |-> s = 1]
    /\ created_snapshots = [s \in Sessions |-> <<>>]
    /\ annotations = [s \in Sessions |-> None]
    /\ pod_name = [s \in Sessions |-> IF s = 1 THEN "p1" ELSE None]
    /\ sandbox = [s \in Sessions |->
                    IF s = 1 THEN [created |-> TRUE, annotation |-> None] ELSE NoSandbox]
    /\ cur = [s \in Sessions |-> None]
    /\ evCount = [s \in Sessions |-> 0]
    /\ lastEv = [s \in Sessions |-> NoEvent]
    /\ idx = [s \in Sessions |-> 0]
    /\ result = [s \in Sessions |->
                   IF s = 1 THEN Res("enter", -1, "", FALSE, FALSE, 0) ELSE NoResult]
    /\ calls = [s \in Sessions |-> <<>>]
    /\ accepted = [s \in Sessions |-> <<>>]
    /\ listed = [s \in Sessions |-> [none |-> TRUE, items |-> <<>>]]
    /\ args = [s \in Sessions |-> NoArgs]

\* the faults that can reach the call: a list fault only in bulk mode, a
\* delete fault only on an object the call can address
RelevantFaults(filters, listFault, faults) ==
    LET direct == "snapshot_id" \in DOMAIN filters
        bulk == ~direct /\ "policy_name" \in DOMAIN filters
    IN  /\ listFault # "none" => bulk /\ \A id \in SnapIds : faults[id] = "none"
        /\ \A id \in SnapIds :
              faults[id] # "none" => (bulk \/ (direct /\ filters["snapshot_id"] = id))

\* list_snapshots and delete_snapshots read nothing but the store and their
\* arguments: the first query of a scope, from every store, covers them
FirstQuery(s) == result[s].op = "enter"

NextQuery ==
    \/ \E s \in Sessions : FirstQuery(s) /\
          \E policy_name \in Policies \cup {None}, ready_only \in BOOLEAN, fault \in Faults :
            ListCall(s, policy_name, ready_only, fault)
    \/ \E s \in Sessions : FirstQuery(s) /\
          \E filters \in FilterSets, listFault \in Faults, faults \in DeleteFaultMaps :
            /\ RelevantFaults(filters, listFault, faults)
            /\ DeleteCall(s, filters, listFault, faults)

SpecQuery == InitQuery /\ [][NextQuery]_vars

\* ---- the waits of a ready session, with a stream that reaches its end
\* session 1 inside its scope, ready, with its pod, over an empty store
InitWait ==
    /\ snapshots = <<>>
    /\ InitQuery

NextWait ==
    \/ \E s \in Sessions, name \in TrigNames, fault \in Faults :
            Checkpoint(s, name, fault)
    \/ \E s \in Sessions : phase[s] = "waiting" /\ \E ev \in Events : WatchEvent(s, ev)
    \/ \E s \in Sessions : WatchEnd(s)
    \/ \E s \in Sessions, e \in StreamErrors : WatchFail(s, e)
    \/ \E k \in TriggerKeys, pod \in PodNames : EnvCreateTrigger(k, pod)
    \/ \E k \in TriggerKeys : EnvDeleteTrigger(k)

\* timeout_seconds (line 130) makes the server close the stream: a wait
\* that is not ended otherwise gets the end of its stream
SpecWait == InitWait /\ [][NextWait]_vars /\ \A s \in Sessions : WF_vars(WatchEnd(s))

\* ------------------------------------------------------------ two sessions
\* the pod of each session's workload
SessionPod == [s \in Sessions |-> IF s = 1 THEN "p1" ELSE "p2"]

\* both sessions inside their scopes, on the same namespace, over an empty
\* store, each with a ready controller and a running workload
InitTwo ==
    /\ triggers = EmptyTriggers
    /\ snapshots = <<>>
    /\ phase = [s \in Sessions |-> "open"]
    /\ namespace = [s \in Sessions |-> "sandbox-test"]
    /\ trigger_name = [s \in Sessions |-> None]
    /\ controller_ready = [s \in Sessions |-> TRUE]
    /\ created_snapshots = [s \in Sessions |-> <<>>]
    /\ annotations = [s \in Sessions |-> None]
    /\ pod_name = SessionPod
    /\ sandbox = [s \in Sessions |-> [created |-> TRUE, annotation |-> None]]
    /\ cur = [s \in Sessions |-> None]
    /\ evCount = [s \in Sessions |-> 0]
    /\ lastEv = [s \in Sessions |-> NoEvent]
    /\ idx = [s \in Sessions |-> 0]
    /\ result = [s \in Sessions |-> Res("enter", -1, "", FALSE, FALSE, 0)]
    /\ calls = [s \in Sessions |-> <<>>]
    /\ accepted = [s \in Sessions |-> <<>>]
    /\ listed = [s \in Sessions |-> [none |-> TRUE, items |-> <<>>]]
    /\ args = [s \in Sessions |-> NoArgs]

\* the event the controller's processing of a trigger puts on its watch
Processed == [type |-> "MODIFIED", conds |-> << TCond("Triggered", "True", "Complete") >>]

\* the calls of the two sessions interleave at their remote calls; nobody
\* else writes to the namespace, and a wait sees the processed event, the
\* end of its stream or an error of its stream
NextTwo ==
    \/ \E s \in Sessions, name \in TrigNames, fault \in Faults : Checkpoint(s, name, fault)
    \/ \E s \in Sessions : WatchEvent(s, Processed)
    \/ \E s \in Sessions : WatchEnd(s)
    \/ \E s \in Sessions, e \in StreamErrors : WatchFail(s, e)
    \/ \E s \in Sessions : Exit(s)
    \/ \E s \in Sessions, fault \in Faults : CleanupStep(s, fault)
    \/ \E s \in Sessions : CleanupDone(s)

SpecTwo == InitTwo /\ [][NextTwo]_vars

\* ------------------------------------------------------------ readiness
\* a session from its construction on, over a store holding one snapshot
InitReady ==
    InitWith(EmptyTriggers,
             StoreOf(<< Profile("sandbox-test", "daily", << Cond("Ready", "True") >>, 1, "t1") >>),
             None)

\* every operation of the session, from every answer the pod lists of the
\* two topologies can give to a probe
NextReady ==
    \/ \E s \in Sessions : phase[s] = "new" /\
          \E oSelf \in PodLists, oManaged \in PodLists :
            Construct(s, oSelf, oManaged, "none", "none")
    \/ \E s \in Sessions, pod \in PodNames : Enter(s, pod)
    \/ \E s \in Sessions : Callable(s) /\
          \E oSelf \in PodLists, oManaged \in PodLists : Probe(s, oSelf, oManaged)
    \/ \E s \in Sessions, name \in TrigNames, fault \in Faults : Checkpoint(s, name, fault)
    \/ \E s \in Sessions : WatchEvent(s, Processed)
    \/ \E s \in Sessions : WatchEnd(s)
    \/ \E s \in Sessions, policy_name \in {None, "daily"}, fault \in Faults :
            ListCall(s, policy_name, FALSE, fault)
    \/ \E s \in Sessions, filters \in {[snapshot_id |-> "s1"], [policy_name |-> "daily"]},
          listFault \in Faults :
            /\ RelevantFaults(filters, listFault, NoFaults)
            /\ DeleteCall(s, filters, listFault, NoFaults)
    \/ \E s \in Sessions : Exit(s)
    \/ \E s \in Sessions, fault \in Faults : CleanupStep(s, fault)
    \/ \E s \in Sessions : CleanupDone(s)

SpecReady == InitReady /\ [][NextReady]_vars

\* ================================================================ properties
Range(f) == {f[i] : i \in DOMAIN f}

\* the last checkpoint of s has returned, its wait having ended with w
WaitEnded(s, w) ==
    /\ result[s].op = "checkpoint"
    /\ Len(calls[s]) = 3
    /\ calls[s][3].op = "watch"
    /\ calls[s][3].out = w

\* C1: in every state the tracked list created_snapshots is exactly the
\* sequence, in call order, of the names whose create the store accepted:
\* appended as soon as the create succeeds (the wait has not begun), kept
\* whatever the wait does, never appended when the create or a precondition
\* failed.
C1_TrackedAreAcceptedCreates ==
    \A s \in Sessions : created_snapshots[s] = accepted[s]

\* two creates accepted, the wait of the second one ended in an exception
C1_Witness ==
    /\ created_snapshots[1] = << "t2", "t1" >>
    /\ WaitEnded(1, "Error")
    /\ result[1].raised

\* C2: a checkpoint whose create succeeded and whose watch stream ended
\* without a matching event returns exit code 1 with the timeout message,
\* and its name is tracked.
C2_TimeoutTracked ==
    \A s \in Sessions :
        WaitEnded(s, "ended") =>
            /\ result[s].exit = 1
            /\ result[s].msg = "timed-out"
            /\ ~result[s].raised
            /\ calls[s][1] = Call("create", "trigger", calls[s][3].name, "ok")
            /\ calls[s][3].name \in Range(created_snapshots[s])

\* the stream delivered a partially matching event, then ended
C2_Witness ==
    /\ WaitEnded(1, "ended")
    /\ evCount[1] >= 1
    /\ lastEv[1] = [type |-> "MODIFIED",
                    conds |-> << TCond("Triggered", "False", "Complete") >>]

\* C3: a checkpoint call on a session that is not ready, or has no pod name,
\* returns exit code 1, issues no remote call, and leaves created_snapshots
\* and the store as they were.
C3_PreconditionsBeforeRemote ==
    [][ \A s \in Sessions :
          (~controller_ready[s] \/ pod_name[s] = None) =>
             \A name \in TrigNames, fault \in Faults :
                Checkpoint(s, name, fault) =>
                   /\ result'[s].exit = 1
                   /\ ~result'[s].raised
                   /\ calls'[s] = <<>>
                   /\ created_snapshots' = created_snapshots
                   /\ triggers' = triggers
                   /\ snapshots' = snapshots ]_vars

\* refused for want of readiness, on a session that has its pod
C3_Witness ==
    /\ result[1].op = "checkpoint"
    /\ result[1].msg = "not-ready"
    /\ pod_name[1] # None
    /\ ~controller_ready[1]

\* the last checkpoint of s has returned after one of its remote calls failed
CheckpointFailed(s) ==
    /\ result[s].op = "checkpoint"
    /\ phase[s] # "waiting"
    /\ Len(calls[s]) >= 1
    /\ \/ calls[s][1].out # "ok"
       \/ Len(calls[s]) = 3 /\ calls[s][3].out # "matched"

\* C4: whatever fails inside checkpoint (the create, the watch stream with
\* any kind of error, a stream that ends unmatched), the call returns a
\* Result with a non-zero exit code and no exception leaves it.
C4_CheckpointNeverRaises ==
    \A s \in Sessions :
        CheckpointFailed(s) => ~result[s].raised /\ result[s].exit > 0

\* every delete of the last cleanup of s was answered ok, 404 or API error
ApiOutcomesOnly(s) ==
    \A i \in 1..Len(calls[s]) : calls[s][i].out \in {"ok", "404", "500"}

\* C5: when the deletes of a cleanup succeed or fail with ApiExceptions (404
\* or any other status), the cleanup issues one trigger delete for every
\* tracked name and nothing is raised out of it.
C5_CleanupTotal ==
    \A s \in Sessions :
        (phase[s] = "closed" /\ ApiOutcomesOnly(s)) =>
            /\ ~result[s].raised
            /\ Len(calls[s]) = Len(created_snapshots[s])
            /\ \A n \in Range(created_snapshots[s]) :
                  \E i \in 1..Len(calls[s]) :
                     /\ calls[s][i].op = "delete"
                     /\ calls[s][i].kind = "trigger"
                     /\ calls[s][i].name = n

\* the first delete failed with a 500, the second was still made
C5_Witness ==
    /\ phase[1] = "closed"
    /\ Len(calls[1]) = 2
    /\ calls[1][1].out = "500"
    /\ calls[1][2].out = "ok"

C7_NoTriggerLeft ==
    \A s \in Sessions :
        ( /\ phase[s] = "closed"
          /\ ~result[s].raised
          /\ \A i \in 1..Len(calls[s]) : calls[s][i].out \in {"ok", "404"} ) =>
            \A k \in TriggerKeys : triggers[k].present => triggers[k].by # s

\* the session had two creates accepted and both deletes went through
C7_Witness ==
    /\ phase[1] = "closed"
    /\ ~result[1].raised
    /\ Len(accepted[1]) = 2
    /\ Len(calls[1]) = 2
    /\ \A i \in 1..2 : calls[1][i].out = "ok"

\* no Ready=True snapshot stands behind the reference of s
NoReadySnapshot(s) ==
    LET k == <<namespace[s], trigger_name[s]>> IN
    \/ ~triggers[k].present
    \/ \A i \in 1..Len(snapshots) :
          ~ /\ snapshots[i].ns = namespace[s]
            /\ snapshots[i].id = triggers[k].snap
            /\ Cond("Ready", "True") \in Range(snapshots[i].conds)

\* C8: for a session constructed with a snapshot reference, a failure of the
\* resolve-and-bind step (a lookup of the trigger or the snapshot fails, or
\* no Ready snapshot stands behind the reference) leaves the constructor as
\* an exception, a failed construction stays failed, and no sandbox exists
\* for the session without the binding annotation. (A step that takes s out
\* of "new" is its constructor running.)
C8_BindOrFail ==
    [][ \A s \in Sessions :
          trigger_name[s] # None =>
             /\ (phase[s] = "new" /\ phase'[s] # "new") =>
                   ( ( \/ NoReadySnapshot(s)
                       \/ \E i \in 1..Len(calls'[s]) :
                            calls'[s][i].op = "get" /\ calls'[s][i].out # "ok" )
                     => phase'[s] = "failed" )
             /\ phase[s] = "failed" => phase'[s] = "failed"
             /\ phase'[s] = "failed" => ~sandbox'[s].created
             /\ sandbox'[s].created => sandbox'[s].annotation # None ]_vars

\* the probe passed, the reference resolved, the snapshot was not Ready
C8_Witness ==
    /\ phase[1] = "failed"
    /\ trigger_name[1] = "t1"
    /\ result[1].flag
    /\ Len(calls[1]) >= 2
    /\ calls[1][Len(calls[1])] = Call("get", "snapshot", "s1", "ok")
    /\ \E i \in 1..Len(snapshots) :
          snapshots[i].id = "s1" /\ snapshots[i].conds = << Cond("Ready", "False") >>

\* C9: controller_ready never goes from true to false; a probe that returns
\* true leaves it true; a probe on a session that is ready returns true and
\* issues no pod-list query. (A step after which the last operation of s is
\* a probe, and which changed what a probe writes, is a probe of s.)
C9_ProbeMonotonic ==
    [][ \A s \in Sessions :
          /\ controller_ready[s] => controller_ready'[s]
          /\ ( /\ result'[s].op = "probe"
               /\ <<result[s], calls[s], controller_ready[s]>>
                    # <<result'[s], calls'[s], controller_ready'[s]>> ) =>
                /\ result'[s].flag => controller_ready'[s]
                /\ controller_ready[s] =>
                      /\ result'[s].flag
                      /\ ~result'[s].raised
                      /\ calls'[s] = <<>> ]_vars

\* a probe was answered from the cached flag
C9_Witness ==
    /\ result[1].op = "probe"
    /\ result[1].flag
    /\ calls[1] = <<>>

LacksBoth(f) == "snapshot_id" \notin DOMAIN f /\ "policy_name" \notin DOMAIN f

\* C10: a delete_snapshots call whose filters hold neither snapshot_id nor
\* policy_name (the empty set included) returns 0 and issues no remote call;
\* the store is as it was.
C10_NoKeyNoEffect ==
    [][ \A s \in Sessions :
          ( /\ result[s].op # "delete_snapshots"
            /\ result'[s].op = "delete_snapshots"
            /\ LacksBoth(args'[s].filters) ) =>
              /\ result'[s].count = 0
              /\ ~result'[s].raised
              /\ calls'[s] = <<>>
              /\ snapshots' = snapshots
              /\ triggers' = triggers ]_vars

\* filters that name a trigger only, over a store holding a snapshot of it
C10_Witness ==
    /\ result[1].op = "delete_snapshots"
    /\ DOMAIN args[1].filters = {"trigger_name"}
    /\ \E i \in 1..Len(snapshots) :
          snapshots[i].ns = namespace[1] /\ snapshots[i].trig = args[1].filters["trigger_name"]
\* the step is the delete_snapshots call of s (a scope makes one query)
DeleteStep(s) == result[s].op = "enter" /\ result'[s].op = "delete_snapshots"

\* the objects of the store other than the one named id in namespace ns
Others(items, ns, id) == {o \in Range(items) : ~(o.ns = ns /\ o.id = id)}

BulkStep(s) ==
    /\ DeleteStep(s)
    /\ "snapshot_id" \notin DOMAIN args'[s].filters
    /\ "policy_name" \in DOMAIN args'[s].filters
    /\ ~result'[s].raised
    /\ calls'[s] # <<>>
    /\ calls'[s][1].out = "ok"

\* the objects list_snapshots(policy_name, ready_only=False) hands to the
\* bulk loop, and those of them that pass the remaining filter keys
Candidates(items, ns, f) ==
    {o \in Range(items) :
        o.ns = ns /\ (f["policy_name"] # None => o.policy = f["policy_name"])}
MatchingCandidates(items, ns, f) ==
    {o \in Candidates(items, ns, f) :
        \A key \in (DOMAIN f) \ {"policy_name"} : SummaryGet(Summary(o), key) = f[key]}

\* positions of the delete calls in the call log of a bulk delete
DeleteCalls(cs) == {i \in 1..Len(cs) : cs[i].op = "delete"}

\* C12: a bulk delete makes one delete attempt for every matching candidate,
\* whatever API status the other attempts met, and returns the number of
\* attempts that went through; an attempt answered 404 is not counted.
C12_BulkCountsSuccesses ==
    [][ \A s \in Sessions :
          BulkStep(s) =>
             LET m == MatchingCandidates(snapshots, namespace[s], args'[s].filters)
                 d == DeleteCalls(calls'[s])
             IN  /\ Cardinality(d) = Cardinality(m)
                 /\ {calls'[s][i].name : i \in d} = {o.id : o \in m}
                 /\ \A i \in d : calls'[s][i].kind = "snapshot"
                 /\ result'[s].count = Cardinality({i \in d : calls'[s][i].out = "ok"}) ]_vars

\* three attempts: the first went through, the second met a 404, the third
\* was still made and counted
C12_Witness ==
    /\ result[1].op = "delete_snapshots"
    /\ Len(calls[1]) = 4
    /\ calls[1][2].out = "ok"
    /\ calls[1][3].out = "404"
    /\ calls[1][4].out = "ok"
    /\ result[1].count = 2
\* the step is a list_snapshots call of s that the store answered
ListStep(s) ==
    /\ result[s].op = "enter"
    /\ result'[s].op = "list_snapshots"
    /\ calls'[s] = << Call("list", "snapshot", None, "ok") >>

\* positions in the store of the objects that pass the filters of the call
Passing(items, ns, policy_name, ready_only) ==
    {i \in 1..Len(items) :
        /\ items[i].ns = ns
        /\ policy_name # None => items[i].policy = policy_name
        /\ ready_only => Cond("Ready", "True") \in Range(items[i].conds)}

\* position in the store of the object named id
PosOf(items, id) == CHOOSE i \in 1..Len(items) : items[i].id = id

\* C13: an answered list_snapshots that finds something returns one summary
\* for each object of the namespace that passes the filters (the policy
\* when one is given, Ready=True when ready_only) and for no other, newest
\* creationTimestamp first, objects of equal timestamp in the order the
\* store enumerated them.
C13_ListFilteredSortedStable ==
    [][ \A s \in Sessions :
          ListStep(s) =>
             LET P == Passing(snapshots, namespace[s], args'[s].policy_name,
                              args'[s].ready_only)
                 out == listed'[s].items
             IN  P # {} =>
                 /\ ~listed'[s].none
                 /\ Len(out) = Cardinality(P)
                 /\ {out[j].snapshot_id : j \in 1..Len(out)} = {snapshots[i].id : i \in P}
                 /\ \A j \in 1..Len(out) :
                       LET o == snapshots[PosOf(snapshots, out[j].snapshot_id)] IN
                       /\ out[j].creationTimestamp = o.ts
                       /\ out[j].policy_name = o.policy
                       /\ out[j].uid = o.uid
                       /\ out[j].status = "Ready" <=> Cond("Ready", "True") \in Range(o.conds)
                 /\ \A j \in 1..Len(out), k \in 1..Len(out) :
                       j < k =>
                         \/ out[j].creationTimestamp > out[k].creationTimestamp
                         \/ /\ out[j].creationTimestamp = out[k].creationTimestamp
                            /\ PosOf(snapshots, out[j].snapshot_id)
                                 < PosOf(snapshots, out[k].snapshot_id) ]_vars

\* a listing by policy, Ready only, that left the second object out and
\* returned the first and the third, of equal timestamp, in store order
C13_Witness ==
    /\ result[1].op = "list_snapshots"
    /\ args[1].policy_name = "daily"
    /\ args[1].ready_only
    /\ ~listed[1].none
    /\ Len(snapshots) = 3
    /\ Len(listed[1].items) = 2
    /\ listed[1].items[1].snapshot_id = "s1"
    /\ listed[1].items[2].snapshot_id = "s3"
    /\ listed[1].items[1].creationTimestamp = listed[1].items[2].creationTimestamp
\* C14: list_snapshots never returns an empty sequence: an answered call
\* that no object passes (an empty store, or none matching) returns None,
\* and whatever it returns that is not None has at least one element.
C14_NoneNotEmpty ==
    [][ \A s \in Sessions :
          /\ ListStep(s) =>
                ( Passing(snapshots, namespace[s], args'[s].policy_name,
                          args'[s].ready_only) = {}
                  => listed'[s].none )
          /\ (result'[s].op = "list_snapshots" /\ ~listed'[s].none) =>
                Len(listed'[s].items) >= 1 ]_vars

\* a listing over a store that holds objects, none of which passes
C14_Witness ==
    /\ result[1].op = "list_snapshots"
    /\ calls[1] = << Call("list", "snapshot", None, "ok") >>
    /\ ~result[1].raised
    /\ listed[1].none
    /\ args[1].policy_name = "weekly"
    /\ \E i \in 1..Len(snapshots) :
          snapshots[i].ns = namespace[1] /\ snapshots[i].policy = "daily"
\* C15: a session constructed with a snapshot reference whose
\* controller_ready is false gets no further than its constructor: it holds
\* no binding, and no workload is provisioned for it.
C15_RestoreGated ==
    \A s \in Sessions :
        (trigger_name[s] # None /\ phase[s] # "new" /\ ~controller_ready[s]) =>
            /\ phase[s] = "failed"
            /\ annotations[s] = None
            /\ ~sandbox[s].created
\* the step is a checkpoint of s whose create the store accepted: the call
\* goes on to wait for cur'[s]
CreateAccepted(s) == Callable(s) /\ phase'[s] = "waiting"

\* C16: the trigger object a checkpoint(name) has created, read back from
\* the store under the session's namespace and that name, carries the name,
\* the session's pod as targetPod, and the session's namespace.
C16_TriggerRoundTrip ==
    [][ \A s \in Sessions :
          CreateAccepted(s) =>
             LET o == triggers'[<<namespace[s], cur'[s]>>] IN
             /\ o.present
             /\ o.name = cur'[s]
             /\ o.targetPod = pod_name[s]
             /\ o.ns = namespace[s]
             /\ calls'[s][1] = Call("create", "trigger", cur'[s], "ok") ]_vars

\* the second checkpoint of a session waits, its object is in the store
C16_Witness ==
    /\ phase[1] = "waiting"
    /\ cur[1] = "t2"
    /\ created_snapshots[1] = << "t1", "t2" >>
    /\ triggers[<<"sandbox-test", "t2">>].present
    /\ triggers[<<"sandbox-test", "t2">>].targetPod = "p1"
    /\ triggers[<<"sandbox-test", "t2">>].by = 1
\* an ADDED or MODIFIED event whose conditions hold Triggered/True/Complete
IsComplete(ev) ==
    /\ ev.type \in {"ADDED", "MODIFIED"}
    /\ TCond("Triggered", "True", "Complete") \in Range(ev.conds)

\* C17: on a ready session with a pod, a checkpoint returns exit code 0 if
\* and only if its watch delivers an ADDED or MODIFIED event whose conditions
\* hold Triggered/True/Complete: the call returns 0 at the first such event,
\* keeps waiting on any other event, and a checkpoint that returned 0 has
\* seen such an event as its last one. The same for every checkpoint of a
\* session.
C17_SuccessIffComplete ==
    [][ \A s \in Sessions :
          /\ (phase[s] = "waiting" /\ evCount'[s] = evCount[s] + 1) =>
                IF IsComplete(lastEv'[s])
                THEN /\ phase'[s] = "open"
                     /\ result'[s] = Res("checkpoint", 0, "", FALSE, FALSE, 0)
                ELSE /\ phase'[s] = "waiting"
                     /\ result'[s].exit # 0
          /\ (result'[s].op = "checkpoint" /\ result'[s].exit = 0) =>
                /\ controller_ready'[s]
                /\ pod_name'[s] # None
                /\ phase'[s] # "waiting"
                /\ IsComplete(lastEv'[s])
                /\ Len(calls'[s]) = 3
                /\ calls'[s][1].out = "ok"
                /\ calls'[s][3] = Call("watch", "trigger", calls'[s][1].name, "matched") ]_vars

\* the second checkpoint of a session returned 0 on its second event, a
\* MODIFIED one whose second condition is the complete one
C17_Witness ==
    /\ created_snapshots[1] = << "t1", "t2" >>
    /\ result[1] = Res("checkpoint", 0, "", FALSE, FALSE, 0)
    /\ evCount[1] = 2
    /\ lastEv[1] = [type |-> "MODIFIED",
                    conds |-> << TCond("Triggered", "False", "Pending"),
                                 TCond("Triggered", "True", "Complete") >>]
\* C18: the resolve step fails on a trigger that has no created-snapshot
\* field in its status: no later step of a construction is ever handed an
\* absent identifier.
C18_ResolveFailsUnprocessed ==
    \A s \in Sessions :
        result[s].op = "init" =>
            \A i \in 1..Len(calls[s]) :
                (calls[s][i].op = "get" /\ calls[s][i].kind = "snapshot") =>
                    calls[s][i].name # None
\* C19: a constructor with a snapshot reference that goes through leaves as
\* the binding annotation the snapshot name in the status of the referenced
\* trigger, and the store then holds a snapshot of that name with a
\* Ready=True condition; the workload provisioned afterwards carries that
\* annotation.
C19_BindsReferencedReady ==
    [][ \A s \in Sessions :
          trigger_name[s] # None =>
             /\ (phase[s] = "new" /\ phase'[s] = "built") =>
                   LET ref == triggers[<<namespace[s], trigger_name[s]>>] IN
                   /\ ref.present
                   /\ ref.snap # None
                   /\ annotations'[s] = ref.snap
                   /\ \E i \in 1..Len(snapshots) :
                         /\ snapshots[i].ns = namespace[s]
                         /\ snapshots[i].id = ref.snap
                         /\ Cond("Ready", "True") \in Range(snapshots[i].conds)
             /\ (phase[s] = "built" /\ phase'[s] = "open") =>
                   /\ sandbox'[s].created
                   /\ sandbox'[s].annotation = annotations[s]
                   /\ annotations[s] # None
             /\ phase[s] # "new" => annotations'[s] = annotations[s] ]_vars

\* the workload is bound to the snapshot of t2 while t1 has one of its own
C19_Witness ==
    /\ phase[1] = "open"
    /\ trigger_name[1] = "t2"
    /\ sandbox[1].created
    /\ sandbox[1].annotation = "s2"
    /\ triggers[<<"sandbox-test", "t1">>].snap = "s1"
    /\ \E i \in 1..Len(snapshots) : snapshots[i].id = "s1" /\ IsReady(snapshots[i].conds)
\* C20: every delete a bulk delete_snapshots issues is for a snapshot of the
\* namespace whose spec.policyName equals the policy_name given and whose
\* summary equals the filters on every other key; no other snapshot is
\* removed from the store.
C20_OnlyPolicyAndFilters ==
    [][ \A s \in Sessions :
          ( /\ DeleteStep(s)
            /\ "snapshot_id" \notin DOMAIN args'[s].filters
            /\ "policy_name" \in DOMAIN args'[s].filters ) =>
             LET f == args'[s].filters
                 Allowed(o) ==
                    /\ o.ns = namespace[s]
                    /\ o.policy = f["policy_name"]
                    /\ \A key \in (DOMAIN f) \ {"policy_name"} :
                          SummaryGet(Summary(o), key) = f[key]
             IN  /\ \A i \in DeleteCalls(calls'[s]) :
                       Allowed(snapshots[PosOf(snapshots, calls'[s][i].name)])
                 /\ \A o \in Range(snapshots) :
                       o \notin Range(snapshots') => Allowed(o) ]_vars
\* C21: a probe never raises: a pod-list query that fails, for whatever
\* reason, counts as its topology not being satisfied, and the probe returns
\* false when it found no topology satisfied.
C21_ProbeSwallowsFailures ==
    \A s \in Sessions :
        result[s].op = "probe" =>
            /\ ~result[s].raised
            /\ (\E i \in 1..Len(calls[s]) : calls[s][i].out # "ok") =>
                  (Len(calls[s]) = 2 \/ result[s].flag)
\* C22: every checkpoint call comes to an end: a session that waits
\* eventually waits no more, whatever the controller does; a wait that was
\* ended by a matching event or by the end of its stream gives a Result; and
\* no event is consumed except by a waiting call whose earlier events did
\* not match.
C22_CheckpointTerminates ==
    /\ \A s \in Sessions : (phase[s] = "waiting") ~> (phase[s] # "waiting")
    /\ [][ \A s \in Sessions :
             /\ evCount'[s] = evCount[s] + 1 =>
                   /\ phase[s] = "waiting"
                   /\ ~IsComplete(lastEv[s])
             /\ (phase[s] = "waiting" /\ phase'[s] # "waiting") =>
                   /\ result'[s].op = "checkpoint"
                   /\ calls'[s][3].out \in {"matched", "ended"} =>
                         /\ ~result'[s].raised
                         /\ result'[s].exit \in {0, 1} ]_vars

\* a wait that consumed all the events it may, none matching, was ended by
\* the end of its stream
C22_Witness ==
    /\ WaitEnded(1, "ended")
    /\ evCount[1] = MaxEvents
    /\ ~IsComplete(lastEv[1])
    /\ result[1].exit = 1

\* a checkpoint of s has just been answered 409 by the store: the name is
\* taken
LostCreate(s) ==
    /\ phase[s] = "open"
    /\ result'[s].op = "checkpoint"
    /\ Len(calls'[s]) = 1
    /\ calls'[s][1].op = "create"
    /\ calls'[s][1].out = "409"
    /\ << result[s], calls[s] >> # << result'[s], calls'[s] >>

\* C23: two sessions interleave on one namespace whose store takes one
\* creation per name. The session whose creation is refused because the
\* other session holds the name gets a Result with exit code 1 and does not
\* track the name; a cleanup issues deletes only for names of its own
\* session's list, and a trigger leaves the store only through the cleanup
\* of the session that created it
C23_LoserLeavesWinnerAlone ==
    [][ /\ \A s \in Sessions :
            /\ LostCreate(s) =>
                  /\ ~result'[s].raised
                  /\ result'[s].exit = 1
                  /\ created_snapshots'[s] = created_snapshots[s]
                  /\ triggers' = triggers
            /\ (phase[s] = "closing" /\ Len(calls'[s]) = Len(calls[s]) + 1) =>
                  /\ calls'[s][Len(calls'[s])].op = "delete"
                  /\ calls'[s][Len(calls'[s])].name \in Range(created_snapshots[s])
        /\ \A k \in TriggerKeys :
              (triggers[k].present /\ ~triggers'[k].present) =>
                  /\ phase[triggers[k].by] = "closing"
                  /\ calls'[triggers[k].by] # calls[triggers[k].by]
                  /\ k[2] \in Range(created_snapshots[triggers[k].by]) ]_vars

\* session 2 lost "t1" to session 1, has closed, and the trigger of session 1
\* is still in the store
C23_Witness ==
    /\ triggers[<<"sandbox-test", "t1">>].present
    /\ triggers[<<"sandbox-test", "t1">>].by = 1
    /\ created_snapshots[1] = << "t1" >>
    /\ phase[2] = "closed"
    /\ created_snapshots[2] = << "t2" >>
    /\ Len(calls[2]) = 1
    /\ calls[2][1].out = "ok"

\* the operations other than the construction and the probe
NonProbeOps == {"checkpoint", "list_snapshots", "delete_snapshots", "exit"}

\* C24: checkpoint, list_snapshots, delete_snapshots and the cleanup leave
\* controller_ready as it is and issue no pod-list query: controller_ready
\* changes only in the construction or in a probe that answers true. So a
\* checkpoint of a session that is not ready returns exit code 1 without a
\* remote call, whatever the state of the controller by then, and the same
\* session's checkpoint gets past the readiness test once a probe has
\* answered true
C24_ReadinessOnlyByProbe ==
    [][ \A s \in Sessions :
          /\ controller_ready'[s] # controller_ready[s] =>
                /\ result'[s].op \in {"init", "probe"}
                /\ result'[s].flag
                /\ controller_ready'[s]
          /\ result'[s].op \in NonProbeOps =>
                /\ controller_ready'[s] = controller_ready[s]
                /\ \A i \in 1..Len(calls'[s]) : calls'[s][i].kind # "pods"
          /\ (Callable(s) /\ result'[s].op = "checkpoint" /\ ~controller_ready[s]) =>
                /\ result'[s] = Res("checkpoint", 1, "not-ready", FALSE, FALSE, 0)
                /\ calls'[s] = <<>>
                /\ triggers' = triggers
                /\ created_snapshots'[s] = created_snapshots[s]
          /\ (result[s].op = "probe" /\ result[s].flag /\ result'[s].op = "checkpoint") =>
                result'[s].msg # "not-ready" ]_vars

\* a checkpoint called inside the scope, with a pod to snapshot, by a session
\* that is not ready was refused without a remote call
C24_Witness ==
    /\ phase[1] = "open"
    /\ pod_name[1] # None
    /\ ~controller_ready[1]
    /\ result[1] = Res("checkpoint", 1, "not-ready", FALSE, FALSE, 0)
    /\ calls[1] = <<>>
    /\ created_snapshots[1] = <<>>
====
